---------------------------- MODULE Spec2Model ----------------------------
\* Task lifecycle, account locking and engine failover of the Naver blog
\* automation server (main.py, blog_poster.py).
\*
\* The handlers of main.py are coroutines on one asyncio event loop: the code
\* between two awaits runs without interleaving.  The only await of
\* execute_blog_posting_task is asyncio.to_thread(post_to_naver_blog), so a
\* background execution is three kinds of step: the part before the await
\* (ExecuteBegin), the engine call in its worker thread (PuppeteerReturns,
\* PuppeteerRaises, SeleniumReturns, SeleniumRaises), and the part after the
\* await (ExecuteFinish).  The request handlers create_blog_post,
\* get_task_status, cancel_task and get_account_status hold no await and are
\* one step each.
\*
\* Spec and FairSpec are this task layer.  The inside of the Selenium path
\* of blog_poster.py (SeleniumSpec, FairSeleniumSpec) and the queue-backed
\* task of celery_app.py (CelerySpec) are specifications of their own over
\* the variables poster and celery, which the task layer leaves alone.
EXTENDS Naturals, FiniteSets, Sequences, TLC

\* ------------------------------------------------------------------ bounds
\* Number of submissions explored (task ids are uuid4 values: always fresh).
MaxJobs == 2

TaskIds == 1..MaxJobs

\* NaverAccount.id is any str; the empty string passes validation.  Two
\* accounts, one of them the empty string, give every pair of tasks the
\* choice of the same or of another account.
AccountIds == {"", "a"}

\* Python's None (a key missing from a dict read with .get()).
None == "None"

\* ------------------------------------------------------- program constants
ProgressPending == 0
ProgressLocked == 10
ProgressPosting == 20
ProgressCompleted == 100
ProgressFailed == 0

\* str(e) of the exception raised when the account is busy (main.py:115).
AccountBusyError == "account in use by another task"
\* str(e) of the exception the Selenium path re-raises (blog_poster.py:381).
SeleniumError == "selenium failed"
\* str(puppeteer_error), the exception post_blog_with_puppeteer raised
\* (blog_poster.py:331); it is logged and dropped.
PuppeteerError == "puppeteer failed"

VARIABLES
    task_storage,         \* task_id -> task record (main.py:78)
    account_locks,        \* account_id -> task_id  (main.py:81)
    PUPPETEER_AVAILABLE,  \* import-time capability flag (blog_poster.py:11-19)
    background,           \* task_id -> the scheduled execution: its arguments,
                          \* its position, and what the engine call produced
    last,                 \* history: the step just taken and what it met
    response,             \* what the step just taken sent back to its HTTP
                          \* client (NoResponse for a background step)
    poster,               \* one BlogPoster on its Selenium path, with the
                          \* profile directory it works on (blog_poster.py)
    celery                \* one run of the queue-backed task (celery_app.py)

\* The engine internals; the handlers of main.py never touch them.
engine_vars == <<poster, celery>>

vars == <<task_storage, account_locks, PUPPETEER_AVAILABLE, background, last,
          response, poster, celery>>

\* ------------------------------------------------------------ dict helpers
\* d[k] = v
Put(d, k, v) == [x \in (DOMAIN d) \cup {k} |-> IF x = k THEN v ELSE d[x]]

\* del d[k]
Del(d, k) == [x \in (DOMAIN d) \ {k} |-> d[x]]

\* Python truthiness of an Optional[str]: None and "" are falsy.
Truthy(x) == x # None /\ x # ""

EmptyDict == [x \in {} |-> None]

\* ------------------------------------------------------------ task records
\* Variant of the stored dict that is already marked as started.
InitialTaskStarted(now) ==
    [status |-> "in_progress", created_at |-> now, progress |-> ProgressLocked,
     account_id |-> None, result |-> None, error |-> None]

\* The dict create_blog_post stores; account_id, result and error are keys
\* added later, None while missing.  post_title is stored and never read.
InitialTask(now) ==
    [status |-> "pending", created_at |-> now, progress |-> ProgressPending,
     account_id |-> None, result |-> None, error |-> None]

\* Variant of the lock test that takes only a pending owner for active.
LockedByPendingTaskOnly(locks, storage, account_id, task_id) ==
    /\ account_id \in DOMAIN locks
    /\ locks[account_id] # task_id
    /\ locks[account_id] \in DOMAIN storage
    /\ storage[locks[account_id]].status \in {"pending"}

\* Variant of the lock test without the check of the owner's status.
LockedByAnyTask(locks, storage, account_id, task_id) ==
    /\ account_id \in DOMAIN locks
    /\ locks[account_id] # task_id

\* Variant of the lock test that looks at the locks of every account.
LockedOnAnyAccount(locks, storage, account_id, task_id) ==
    \E other \in DOMAIN locks :
        /\ locks[other] # task_id
        /\ locks[other] \in DOMAIN storage
        /\ storage[locks[other]].status \in {"pending", "in_progress"}

\* Variant of the lock test that never finds the account busy.
LockedByNoTask(locks, storage, account_id, task_id) == FALSE

\* The coroutine's lock test: the account is locked by another task that is
\* still pending or in_progress.
LockedByActiveTask(locks, storage, account_id, task_id) ==
    /\ account_id \in DOMAIN locks
    /\ locks[account_id] # task_id
    /\ locks[account_id] \in DOMAIN storage
    /\ storage[locks[account_id]].status \in {"pending", "in_progress"}

\* Variant of the acquisition that removes a stale entry and installs none.
AcquireNothing(locks, account_id, task_id) ==
    IF account_id \in DOMAIN locks /\ locks[account_id] # task_id
    THEN Del(locks, account_id)
    ELSE locks

\* Variant of the acquisition that keeps an entry already present.
AcquireLockIfAbsent(locks, account_id, task_id) ==
    IF account_id \in DOMAIN locks THEN locks ELSE Put(locks, account_id, task_id)

\* "Remove stale lock" then "Acquire account lock".
AcquireLock(locks, account_id, task_id) ==
    LET cleared == IF account_id \in DOMAIN locks /\ locks[account_id] # task_id
                   THEN Del(locks, account_id)
                   ELSE locks
    IN  Put(cleared, account_id, task_id)

\* Variant of the finally block that deletes the entry whoever owns it.
ReleaseAnyOwner(locks, account_id, task_id) ==
    IF account_id \in DOMAIN locks THEN Del(locks, account_id) ELSE locks

\* Variant of the finally block that releases nothing.
ReleaseNothing(locks, account_id, task_id) == locks

\* The finally block: release only a lock this task holds.
ReleaseLock(locks, account_id, task_id) ==
    IF account_id \in DOMAIN locks /\ locks[account_id] = task_id
    THEN Del(locks, account_id)
    ELSE locks

\* The three assignments before the engine call.
InProgressTask(task, account_id) ==
    LET t1 == [task EXCEPT !.status = "in_progress",
                           !.progress = ProgressLocked,
                           !.account_id = account_id]
    IN  [t1 EXCEPT !.progress = ProgressPosting]

\* Variant of the completed update that leaves progress as it was.
CompletedTaskProgressKept(task, result) ==
    [task EXCEPT !.status = "completed", !.result = result]

\* The assignments after the engine call has returned.
CompletedTask(task, result) ==
    [task EXCEPT !.status = "completed", !.progress = ProgressCompleted,
                 !.result = result]

\* Variant of the except block that also drops the account_id key.
FailedTaskAccountCleared(task, error) ==
    [task EXCEPT !.status = "failed", !.error = error,
                 !.progress = ProgressFailed, !.account_id = None]

\* Variant of the except block that does not reset progress.
FailedTaskProgressKept(task, error) ==
    [task EXCEPT !.status = "failed", !.error = error]

\* Variant of the except block that records the error and keeps the status.
FailedTaskStatusKept(task, error) ==
    [task EXCEPT !.error = error, !.progress = ProgressFailed]

\* The except block.
FailedTask(task, error) ==
    [task EXCEPT !.status = "failed", !.error = error,
                 !.progress = ProgressFailed]

\* The exception post_to_naver_blog ends with when the Selenium path fails:
\* "raise e" re-raises the Selenium exception; puppeteer_error (None when
\* Puppeteer was not tried) takes no part in it.
RaisedError(puppeteer_error, selenium_error) == selenium_error

\* The engine failure messages an error string contains.
FailureTexts(error) ==
    CASE error = SeleniumError -> {SeleniumError}
      [] error = PuppeteerError -> {PuppeteerError}
      [] OTHER -> {}

\* Variant of cancel_task's release without the test of the owner.
CancelReleaseAnyOwner(locks, task, task_id) ==
    IF Truthy(task.account_id) /\ task.account_id \in DOMAIN locks
    THEN Del(locks, task.account_id)
    ELSE locks

\* cancel_task's lock release: task_info.get("account_id") must be truthy.
CancelRelease(locks, task, task_id) ==
    IF /\ Truthy(task.account_id)
       /\ task.account_id \in DOMAIN locks
       /\ locks[task.account_id] = task_id
    THEN Del(locks, task.account_id)
    ELSE locks

\* ---------------------------------------------------------------- responses
\* No HTTP response: the step belongs to a background execution.
NoResponse == [code |-> "none", body |-> None]

\* raise HTTPException(status_code=404)
NotFound == [code |-> "404", body |-> None]

\* The handlers' except blocks: a failure past the lookup (a KeyError of
\* task_storage[task_id]) is answered 500.
ServerError == [code |-> "500", body |-> None]

\* -------------------------------------------------------------------- Init
\* No BlogPoster is on its Selenium path.
PosterIdle == [pc |-> "idle"]

\* No queue-backed task is running.
CeleryIdle == [pc |-> "idle"]

Init ==
    /\ task_storage = EmptyDict
    /\ account_locks = EmptyDict
    /\ PUPPETEER_AVAILABLE \in BOOLEAN
    /\ background = EmptyDict
    /\ last = [op |-> "start", task_id |-> 0, note |-> "none"]
    /\ response = NoResponse
    /\ poster = PosterIdle
    /\ celery = CeleryIdle

\* ----------------------------------------------------------------- actions
\* POST /api/blog/post: store the pending record, schedule the execution.
create_blog_post(account_id) ==
    LET task_id == Cardinality(DOMAIN task_storage) + 1
    IN  /\ task_id \in TaskIds
        /\ task_storage' = Put(task_storage, task_id, InitialTask(task_id))
        /\ background' = Put(background, task_id,
                             [naver_id |-> account_id, pc |-> "scheduled",
                              outcome |-> None])
        /\ last' = [op |-> "create_blog_post", task_id |-> task_id,
                    note |-> "pending"]
        /\ response' = [code |-> "200",
                         body |-> [task_id |-> task_id, status |-> "pending"]]
        /\ UNCHANGED <<account_locks, PUPPETEER_AVAILABLE>>
        /\ UNCHANGED engine_vars

\* execute_blog_posting_task up to the await: lock test, then either the
\* busy exception (except and finally run in the same step) or acquisition
\* and the move to in_progress, after which the engine call is in its thread.
ExecuteBegin(task_id) ==
    /\ task_id \in DOMAIN background
    /\ background[task_id].pc = "scheduled"
    /\ LET account_id == background[task_id].naver_id
       IN  IF LockedByActiveTask(account_locks, task_storage, account_id, task_id)
           THEN /\ task_storage' =
                       [task_storage EXCEPT
                           ![task_id] = FailedTask(@, AccountBusyError)]
                /\ account_locks' = ReleaseLock(account_locks, account_id, task_id)
                /\ background' = [background EXCEPT ![task_id].pc = "done"]
                /\ last' = [op |-> "execute_begin", task_id |-> task_id,
                            note |-> "busy"]
           ELSE /\ account_locks' = AcquireLock(account_locks, account_id, task_id)
                /\ task_storage' =
                       [task_storage EXCEPT
                           ![task_id] = InProgressTask(@, account_id)]
                /\ background' = [background EXCEPT ![task_id].pc = "thread"]
                /\ last' = [op |-> "execute_begin", task_id |-> task_id,
                            note |-> IF /\ account_id \in DOMAIN account_locks
                                        /\ account_locks[account_id] # task_id
                                     THEN "stale_lock_removed"
                                     ELSE "lock_free"]
    /\ response' = NoResponse
    /\ UNCHANGED PUPPETEER_AVAILABLE
    /\ UNCHANGED engine_vars

\* post_to_naver_blog, Puppeteer branch: the result is returned at once.
PuppeteerReturns(task_id) ==
    /\ task_id \in DOMAIN background
    /\ background[task_id].pc = "thread"
    /\ PUPPETEER_AVAILABLE
    /\ background' = [background EXCEPT ![task_id].pc = "returned",
                                        ![task_id].outcome = "Puppeteer"]
    /\ last' = [op |-> "puppeteer", task_id |-> task_id, note |-> "returned"]
    /\ response' = NoResponse
    /\ UNCHANGED <<task_storage, account_locks, PUPPETEER_AVAILABLE>>
    /\ UNCHANGED engine_vars

\* Puppeteer raises: logged, execution continues with the Selenium path.
PuppeteerRaises(task_id) ==
    /\ task_id \in DOMAIN background
    /\ background[task_id].pc = "thread"
    /\ PUPPETEER_AVAILABLE
    /\ background' = [background EXCEPT ![task_id].pc = "fallback"]
    /\ last' = [op |-> "puppeteer", task_id |-> task_id, note |-> "raised"]
    /\ response' = NoResponse
    /\ UNCHANGED <<task_storage, account_locks, PUPPETEER_AVAILABLE>>
    /\ UNCHANGED engine_vars

\* Variant of the entry of the Selenium path that ignores the flag.
InSeleniumPathIgnoringFlag(task_id) ==
    /\ task_id \in DOMAIN background
    /\ background[task_id].pc \in {"thread", "fallback"}

\* The Selenium path is entered after a Puppeteer failure, or directly when
\* Puppeteer is not available.
InSeleniumPath(task_id) ==
    /\ task_id \in DOMAIN background
    /\ \/ background[task_id].pc = "fallback"
       \/ background[task_id].pc = "thread" /\ ~PUPPETEER_AVAILABLE

SeleniumReturns(task_id) ==
    /\ InSeleniumPath(task_id)
    /\ background' = [background EXCEPT ![task_id].pc = "returned",
                                        ![task_id].outcome = "Selenium"]
    /\ last' = [op |-> "selenium", task_id |-> task_id, note |-> "returned"]
    /\ response' = NoResponse
    /\ UNCHANGED <<task_storage, account_locks, PUPPETEER_AVAILABLE>>
    /\ UNCHANGED engine_vars

SeleniumRaises(task_id) ==
    /\ InSeleniumPath(task_id)
    /\ LET puppeteer_error == IF background[task_id].pc = "fallback"
                              THEN PuppeteerError ELSE None
       IN  background' =
               [background EXCEPT
                   ![task_id].pc = "returned",
                   ![task_id].outcome = RaisedError(puppeteer_error,
                                                    SeleniumError)]
    /\ last' = [op |-> "selenium", task_id |-> task_id, note |-> "raised"]
    /\ response' = NoResponse
    /\ UNCHANGED <<task_storage, account_locks, PUPPETEER_AVAILABLE>>
    /\ UNCHANGED engine_vars

\* execute_blog_posting_task after the await: record the result or the
\* error, then the finally block.
ExecuteFinish(task_id) ==
    /\ task_id \in DOMAIN background
    /\ background[task_id].pc = "returned"
    /\ LET outcome == background[task_id].outcome
           account_id == background[task_id].naver_id
       IN  /\ task_storage' =
                  [task_storage EXCEPT
                      ![task_id] = IF outcome = SeleniumError
                                   THEN FailedTask(@, outcome)
                                   ELSE CompletedTask(@, outcome)]
           /\ account_locks' = ReleaseLock(account_locks, account_id, task_id)
           /\ last' = [op |-> "execute_finish", task_id |-> task_id,
                       note |-> IF outcome = SeleniumError
                                THEN "failed" ELSE "completed"]
    /\ background' = [background EXCEPT ![task_id].pc = "done"]
    /\ response' = NoResponse
    /\ UNCHANGED PUPPETEER_AVAILABLE
    /\ UNCHANGED engine_vars

\* Variant of the lookup that answers 200 for every id.
StatusCodeAlwaysFound(storage, task_id) == "200"

\* get_task_status's lookup: 404 unless the id is a key of task_storage.
StatusCode(storage, task_id) ==
    IF task_id \notin DOMAIN storage THEN "404" ELSE "200"

\* Variant of the response that reports the defaults of the .get() calls.
TaskStatusDefaults(task_info, task_id) ==
    [task_id |-> task_id, status |-> "pending", result |-> None,
     error |-> None, progress |-> 0]

\* The TaskStatusResponse get_task_status builds from the stored record.
TaskStatusResponse(task_info, task_id) ==
    [task_id |-> task_id, status |-> task_info.status,
     result |-> task_info.result, error |-> task_info.error,
     progress |-> task_info.progress]

\* Variant of the handler on an event loop the engine call blocks: it is
\* served only while no engine call is in flight.
get_task_status_blocked(task_id) ==
    /\ \A other \in DOMAIN background :
           background[other].pc \notin {"thread", "fallback"}
    /\ last' = [op |-> "get_task_status", task_id |-> task_id,
                note |-> StatusCode(task_storage, task_id)]
    /\ response' = CASE StatusCode(task_storage, task_id) = "404" -> NotFound
                     [] task_id \notin DOMAIN task_storage -> ServerError
                     [] OTHER ->
                          [code |-> "200",
                           body |-> TaskStatusResponse(task_storage[task_id],
                                                       task_id)]
    /\ UNCHANGED <<task_storage, account_locks, PUPPETEER_AVAILABLE,
                   background>>
    /\ UNCHANGED engine_vars

\* GET /api/blog/task/{task_id}: reads the record, writes nothing.  The
\* read of task_storage[task_id] is inside the handler's try.
get_task_status(task_id) ==
    /\ last' = [op |-> "get_task_status", task_id |-> task_id,
                note |-> StatusCode(task_storage, task_id)]
    /\ response' = CASE StatusCode(task_storage, task_id) = "404" -> NotFound
                     [] task_id \notin DOMAIN task_storage -> ServerError
                     [] OTHER ->
                          [code |-> "200",
                           body |-> TaskStatusResponse(task_storage[task_id],
                                                       task_id)]
    /\ UNCHANGED <<task_storage, account_locks, PUPPETEER_AVAILABLE,
                   background>>
    /\ UNCHANGED engine_vars

\* The body get_account_status returns (its timestamp is left out): the
\* locked accounts, and per lock the owner and the owner's status, "unknown"
\* when task_storage has no such task.
AccountStatus(locks, storage) ==
    [locked_accounts |-> DOMAIN locks,
     locks |-> {[account_id |-> a, task_id |-> locks[a],
                 task_status |-> IF locks[a] \in DOMAIN storage
                                 THEN storage[locks[a]].status
                                 ELSE "unknown"] : a \in DOMAIN locks}]

\* GET /api/blog/account-status: reads both tables, writes nothing.
get_account_status ==
    /\ last' = [op |-> "get_account_status", task_id |-> 0, note |-> "200"]
    /\ response' = [code |-> "200",
                    body |-> AccountStatus(account_locks, task_storage)]
    /\ UNCHANGED <<task_storage, account_locks, PUPPETEER_AVAILABLE,
                   background>>
    /\ UNCHANGED engine_vars

\* DELETE /api/blog/task/{task_id}
cancel_task(task_id) ==
    IF task_id \notin DOMAIN task_storage
    THEN /\ last' = [op |-> "cancel_task", task_id |-> task_id, note |-> "404"]
         /\ response' = NotFound
         /\ UNCHANGED <<task_storage, account_locks, PUPPETEER_AVAILABLE,
                        background>>
         /\ UNCHANGED engine_vars
    ELSE /\ account_locks' =
                CancelRelease(account_locks, task_storage[task_id], task_id)
         /\ task_storage' = [task_storage EXCEPT ![task_id].status = "cancelled"]
         /\ last' = [op |-> "cancel_task", task_id |-> task_id,
                     note |-> task_storage[task_id].status]
         /\ response' = [code |-> "200", body |-> [task_id |-> task_id]]
         /\ UNCHANGED <<PUPPETEER_AVAILABLE, background>>
         /\ UNCHANGED engine_vars

Next ==
    \/ \E account_id \in AccountIds : create_blog_post(account_id)
    \/ \E task_id \in TaskIds : ExecuteBegin(task_id)
    \/ \E task_id \in TaskIds : PuppeteerReturns(task_id)
    \/ \E task_id \in TaskIds : PuppeteerRaises(task_id)
    \/ \E task_id \in TaskIds : SeleniumReturns(task_id)
    \/ \E task_id \in TaskIds : SeleniumRaises(task_id)
    \/ \E task_id \in TaskIds : ExecuteFinish(task_id)
    \/ \E task_id \in TaskIds : cancel_task(task_id)
    \/ \E task_id \in TaskIds : get_task_status(task_id)
    \/ get_account_status

Spec == Init /\ [][Next]_vars

\* The engine call of a task, whichever way it goes.
EngineStep(task_id) ==
    \/ PuppeteerReturns(task_id)
    \/ PuppeteerRaises(task_id)
    \/ SeleniumReturns(task_id)
    \/ SeleniumRaises(task_id)

\* Starlette runs every scheduled background task, the thread pool runs every
\* submitted call, and the event loop resumes every coroutine whose awaited
\* call is over; the engine call is assumed to return or raise.
FairSpec ==
    /\ Spec
    /\ \A task_id \in TaskIds :
          /\ WF_vars(ExecuteBegin(task_id))
          /\ WF_vars(EngineStep(task_id))
          /\ WF_vars(ExecuteFinish(task_id))

\* ------------------------------------------- the Selenium path of BlogPoster
\* post_to_naver_blog (blog_poster.py:336-393) runs in one worker thread:
\* its steps follow each other, and between two of them only the world
\* outside the thread moves (the file system, the browser, the user).
\* poster holds the instance (driver, user_data_dir), the profile directory
\* on disk (dir_exists), the browser process (browser), the exception on
\* its way to the caller (raised) and what the caller finally gets (outcome).

\* range(3) of _cleanup_profile.
MaxCleanupAttempts == 3
\* max_wait_time and the sleep of _wait_for_manual_login, in seconds.
MaxWaitTime == 300
PollInterval == 2
\* Longest time, in seconds, one poll may take on top of the sleep.
MaxLag == 1

\* driver.current_url, as the three substring tests of the wait loop see it:
\* whether it contains "nid.naver.com", "naver.com", "nidlogin".  The login
\* page has all three; a URL holding "nid.naver.com" holds "naver.com".
Urls ==
    {u \in [nid : BOOLEAN, naver : BOOLEAN, nidlogin : BOOLEAN] :
        u.nid => u.naver}

\* str(e) of the exceptions of the Selenium path.
InitError == "browser init failed"
LoginTimeoutError == "login wait timed out"
LoginDriverError == "login page failed"
NavigateError == "navigate failed"
WriteError == "write failed"
PublishError == "publish failed"

main_vars ==
    <<task_storage, account_locks, PUPPETEER_AVAILABLE, background, last,
      response>>

\* A BlogPoster as __init__ leaves it, entering the Selenium path.
PosterStart ==
    [pc |-> "init_profile", driver |-> None, browser |-> "none",
     user_data_dir |-> None, dir_exists |-> FALSE, attempt |-> 0,
     ret |-> None, elapsed |-> 0, url |-> None, raised |-> None,
     result |-> None, quit_attempted |-> FALSE, outcome |-> None,
     step |-> "start"]

SeleniumInit ==
    /\ task_storage = EmptyDict
    /\ account_locks = EmptyDict
    /\ PUPPETEER_AVAILABLE \in BOOLEAN
    /\ background = EmptyDict
    /\ last = [op |-> "start", task_id |-> 0, note |-> "none"]
    /\ response = NoResponse
    /\ poster = PosterStart
    /\ celery = CeleryIdle

\* _init_driver up to the profile directory: mkdtemp sets user_data_dir;
\* the directory is removed and made again.  A failure goes to the except
\* block, which calls _cleanup_profile and raises.
InitProfile ==
    /\ poster.pc = "init_profile"
    /\ \E how \in {"ok", "mkdtemp_raises", "makedirs_raises"} :
          poster' =
              CASE how = "ok" ->
                     [poster EXCEPT !.pc = "create_driver",
                                    !.user_data_dir = "naver-profile",
                                    !.dir_exists = TRUE,
                                    !.step = "init_profile"]
                [] how = "mkdtemp_raises" ->
                     [poster EXCEPT !.pc = "cleanup", !.ret = "raise_init",
                                    !.step = "init_profile"]
                [] how = "makedirs_raises" ->
                     [poster EXCEPT !.pc = "cleanup", !.ret = "raise_init",
                                    !.user_data_dir = "naver-profile",
                                    !.dir_exists = FALSE,
                                    !.step = "init_profile"]
    /\ UNCHANGED <<main_vars, celery>>

\* The rest of _init_driver: webdriver.Chrome starts the browser, then
\* set_page_load_timeout is sent to it; only a returned driver is stored in
\* self.driver (line 347).
CreateDriver ==
    /\ poster.pc = "create_driver"
    /\ \E how \in {"ok", "chrome_raises", "set_timeout_raises"} :
          poster' =
              CASE how = "ok" ->
                     [poster EXCEPT !.pc = "login_open", !.browser = "running",
                                    !.driver = "driver",
                                    !.step = "create_driver"]
                [] how = "chrome_raises" ->
                     [poster EXCEPT !.pc = "cleanup", !.ret = "raise_init",
                                    !.step = "create_driver"]
                [] how = "set_timeout_raises" ->
                     [poster EXCEPT !.pc = "cleanup", !.ret = "raise_init",
                                    !.browser = "running",
                                    !.step = "create_driver"]
    /\ UNCHANGED <<main_vars, celery>>

\* Variant of the loop exit without the break.
LoopLeftWithoutBreak(attempt, rmtree_raised, exists) ==
    attempt >= MaxCleanupAttempts

\* Whether the for loop of _cleanup_profile is left after its pass number
\* attempt: by the break, when rmtree has returned and the directory is
\* gone, or because range(3) is used up.
LoopLeft(attempt, rmtree_raised, exists) ==
    \/ ~rmtree_raised /\ ~exists
    \/ attempt >= MaxCleanupAttempts

\* Where a return of _cleanup_profile leads: from _init_driver's except
\* block to its raise, which post_to_naver_blog re-raises on its way to the
\* finally block; from the finally block out of post_to_naver_blog, with the
\* pending exception or else the result.
CleanupReturn(p) ==
    IF p.ret = "raise_init"
    THEN [p EXCEPT !.pc = "finally", !.raised = InitError, !.ret = None]
    ELSE [p EXCEPT !.pc = "done", !.ret = None,
                   !.outcome = IF p.raised # None THEN p.raised ELSE p.result]

\* _cleanup_profile, its test: nothing at all is done unless user_data_dir
\* is set and the directory exists.
CleanupEnter ==
    /\ poster.pc = "cleanup"
    /\ poster' =
           IF Truthy(poster.user_data_dir) /\ poster.dir_exists
           THEN [poster EXCEPT !.pc = "cleanup_attempt", !.attempt = 0,
                               !.step = "cleanup_enter"]
           ELSE CleanupReturn([poster EXCEPT !.step = "cleanup_skipped"])
    /\ UNCHANGED <<main_vars, celery>>

\* One pass of the for loop: rmtree(ignore_errors=True) removes the
\* directory, leaves it (a file in use), or raises while leaving it; after
\* the last pass the finally block clears user_data_dir.
CleanupAttempt ==
    /\ poster.pc = "cleanup_attempt"
    /\ \E how \in {"removed", "kept", "raises"} :
          /\ how = "raises" => poster.dir_exists
          /\ LET exists == IF how = "removed" THEN FALSE ELSE poster.dir_exists
                 n == poster.attempt + 1
                 p1 == [poster EXCEPT !.attempt = n, !.dir_exists = exists,
                                      !.step = "cleanup_attempt"]
             IN  poster' =
                     IF LoopLeft(n, how = "raises", exists)
                     THEN CleanupReturn([p1 EXCEPT !.user_data_dir = None,
                                                   !.step = "cleanup_finished"])
                     ELSE p1
    /\ UNCHANGED <<main_vars, celery>>

\* _cleanup_all_temp_profiles of another BlogPoster, running for another
\* account in its own thread: it removes every naver-* directory of the
\* temp directory, this instance's included.
OtherPosterCleansTemp ==
    /\ poster.pc \notin {"idle", "done"}
    /\ poster.dir_exists
    /\ poster' = [poster EXCEPT !.dir_exists = FALSE]
    /\ UNCHANGED <<main_vars, celery>>

\* Variant of the login test that takes every page off the login host for
\* a page behind the login.
LoggedInOffLoginHost(url) == ~url.nid

\* The login test of the wait loop.
LoggedIn(url) == ~url.nid /\ url.naver /\ ~url.nidlogin

\* _wait_for_manual_login, opening the login page and taking start_time.
LoginOpen ==
    /\ poster.pc = "login_open"
    /\ \E ok \in BOOLEAN :
          poster' =
              IF ok
              THEN [poster EXCEPT !.pc = "login_poll", !.elapsed = 0,
                                  !.step = "login_open"]
              ELSE [poster EXCEPT !.pc = "finally",
                                  !.raised = LoginDriverError,
                                  !.step = "login_open"]
    /\ UNCHANGED <<main_vars, celery>>

\* Variant of the loop test that never gives up.
WaitOverNever(elapsed) == FALSE

\* The while condition, negated: time.time() - start_time >= max_wait_time.
WaitOver(elapsed) == elapsed >= MaxWaitTime

\* One evaluation of the while condition and, if it holds, one pass of the
\* loop: read current_url, return when logged in, else sleep.  elapsed and
\* current_url are locals: they end with the call.
LoginPoll ==
    /\ poster.pc = "login_poll"
    /\ IF WaitOver(poster.elapsed)
       THEN poster' = [poster EXCEPT !.pc = "finally",
                                     !.raised = LoginTimeoutError,
                                     !.elapsed = 0, !.url = None,
                                     !.step = "login_timeout"]
       ELSE \/ poster' = [poster EXCEPT !.pc = "finally",
                                        !.raised = LoginDriverError,
                                        !.elapsed = 0, !.url = None,
                                        !.step = "login_raises"]
            \/ \E url \in Urls : \E lag \in 0..MaxLag :
                  poster' =
                      IF LoggedIn(url)
                      THEN [poster EXCEPT !.pc = "navigate", !.url = url,
                                          !.elapsed = 0,
                                          !.step = "login_return"]
                      ELSE [poster EXCEPT !.url = url,
                                          !.elapsed = @ + PollInterval + lag,
                                          !.step = "login_poll"]
    /\ UNCHANGED <<main_vars, celery>>

\* _navigate_to_blog_write, _write_blog_content, _publish_blog: each
\* returns or raises; after the last the result dict is built.
PostStep ==
    /\ poster.pc \in {"navigate", "write", "publish"}
    /\ \E ok \in BOOLEAN :
          poster' =
              CASE ~ok ->
                     [poster EXCEPT
                         !.pc = "finally",
                         !.raised = CASE poster.pc = "navigate" -> NavigateError
                                      [] poster.pc = "write" -> WriteError
                                      [] OTHER -> PublishError,
                         !.step = "post_raises"]
                [] ok /\ poster.pc = "navigate" ->
                     [poster EXCEPT !.pc = "write", !.step = "navigate"]
                [] ok /\ poster.pc = "write" ->
                     [poster EXCEPT !.pc = "publish", !.step = "write"]
                [] OTHER ->
                     [poster EXCEPT !.pc = "finally", !.result = "Selenium",
                                    !.step = "publish"]
    /\ UNCHANGED <<main_vars, celery>>

\* The finally block up to its call of _cleanup_profile: quit is called on
\* self.driver if it is set; a failure of quit is logged.
Finally ==
    /\ poster.pc = "finally"
    /\ IF poster.driver # None
       THEN \E quit_ok \in BOOLEAN :
                poster' = [poster EXCEPT
                              !.pc = "cleanup", !.ret = "exit",
                              !.quit_attempted = TRUE,
                              !.browser = IF quit_ok THEN "none" ELSE @,
                              !.step = "finally"]
       ELSE poster' = [poster EXCEPT !.pc = "cleanup", !.ret = "exit",
                                     !.step = "finally"]
    /\ UNCHANGED <<main_vars, celery>>

\* The steps of the thread that runs post_to_naver_blog.
PosterStep ==
    \/ InitProfile
    \/ CreateDriver
    \/ CleanupEnter
    \/ CleanupAttempt
    \/ LoginOpen
    \/ LoginPoll
    \/ PostStep
    \/ Finally

SeleniumNext ==
    \/ InitProfile
    \/ CreateDriver
    \/ CleanupEnter
    \/ CleanupAttempt
    \/ LoginOpen
    \/ LoginPoll
    \/ PostStep
    \/ Finally
    \/ OtherPosterCleansTemp

SeleniumSpec == SeleniumInit /\ [][SeleniumNext]_vars

\* The worker thread keeps running: a step of post_to_naver_blog that can
\* be taken is taken.
FairSeleniumSpec == SeleniumSpec /\ WF_vars(PosterStep)

\* ------------------------------------------------------ the queue-backed task
\* naver_blog_posting_task (celery_app.py) runs post_blog of
\* naver_blog_automation.BlogPoster in a Celery worker; every progress
\* report is an update_state(state="PROGRESS") on the task.  Workers run
\* tasks side by side, each on its own BlogPoster.

\* The progress of the task's own first update_state.
CeleryInitialProgress == 10

\* The progress values of the _update_progress calls of post_blog, in the
\* order in which the code reaches them: post_blog, _init_driver,
\* _naver_login, _navigate_to_blog_write, _write_blog_content,
\* _publish_blog, post_blog.
PostBlogProgress == <<5, 15, 25, 40, 60, 80, 100>>

\* A task as the broker hands it to a worker.
CeleryQueued ==
    [pc |-> "queued", stage |-> 0, state |-> "PENDING", progress |-> None,
     reported |-> << >>]

CeleryInit ==
    /\ task_storage = EmptyDict
    /\ account_locks = EmptyDict
    /\ PUPPETEER_AVAILABLE = FALSE
    /\ background = EmptyDict
    /\ last = [op |-> "start", task_id |-> 0, note |-> "none"]
    /\ response = NoResponse
    /\ poster = PosterIdle
    /\ celery = [task_id \in TaskIds |-> CeleryQueued]

\* update_state(state="PROGRESS", meta={"progress": p, ...}), by the task
\* itself or through progress_callback.
UpdateState(run, p) ==
    [run EXCEPT !.state = "PROGRESS", !.progress = p,
                !.reported = Append(@, p)]

\* The task starts: its own update, then the BlogPoster is built.
CeleryStart(task_id) ==
    /\ celery[task_id].pc = "queued"
    /\ celery' = [celery EXCEPT
                     ![task_id] = [UpdateState(@, CeleryInitialProgress)
                                       EXCEPT !.pc = "report"]]
    /\ UNCHANGED <<main_vars, poster>>

\* The next _update_progress call of post_blog.  The first one (post_blog's
\* own) is followed at once by that of _init_driver; the last one by the
\* return; every other by the work of its method.
ReportProgress(task_id) ==
    /\ celery[task_id].pc = "report"
    /\ LET stage == celery[task_id].stage + 1
       IN  celery' =
               [celery EXCEPT
                   ![task_id] =
                       [UpdateState(@, PostBlogProgress[stage]) EXCEPT
                           !.stage = stage,
                           !.pc = CASE stage = 1 -> "report"
                                    [] stage = Len(PostBlogProgress) -> "return"
                                    [] OTHER -> "work"]]
    /\ UNCHANGED <<main_vars, poster>>

\* The method that has reported its progress returns.
StageReturns(task_id) ==
    /\ celery[task_id].pc = "work"
    /\ celery' = [celery EXCEPT ![task_id].pc = "report"]
    /\ UNCHANGED <<main_vars, poster>>

\* The method raises: post_blog re-raises, the task records FAILURE (a meta
\* without progress) and raises.
StageRaises(task_id) ==
    /\ celery[task_id].pc = "work"
    /\ celery' = [celery EXCEPT ![task_id].pc = "done",
                                ![task_id].state = "FAILURE",
                                ![task_id].progress = None]
    /\ UNCHANGED <<main_vars, poster>>

\* post_blog returns its result and the task returns: SUCCESS.
CeleryReturns(task_id) ==
    /\ celery[task_id].pc = "return"
    /\ celery' = [celery EXCEPT ![task_id].pc = "done",
                                ![task_id].state = "SUCCESS",
                                ![task_id].progress = None]
    /\ UNCHANGED <<main_vars, poster>>

CeleryNext ==
    \/ \E task_id \in TaskIds : CeleryStart(task_id)
    \/ \E task_id \in TaskIds : ReportProgress(task_id)
    \/ \E task_id \in TaskIds : StageReturns(task_id)
    \/ \E task_id \in TaskIds : StageRaises(task_id)
    \/ \E task_id \in TaskIds : CeleryReturns(task_id)

CelerySpec == CeleryInit /\ [][CeleryNext]_vars

\* ------------------------------------------------------ vocabulary of claims
Submitted == DOMAIN task_storage

StatusOf(task_id) == task_storage[task_id].status

PcOf(task_id) == background[task_id].pc

AccountOf(task_id) == background[task_id].naver_id

\* post_to_naver_blog is running in its worker thread.
EngineInFlight(task_id) == PcOf(task_id) \in {"thread", "fallback"}

\* The execution has been started and has not finished.
Running(task_id) == PcOf(task_id) \in {"thread", "fallback", "returned"}

Holds(task_id, account_id) ==
    account_id \in DOMAIN account_locks /\ account_locks[account_id] = task_id

HoldsNext(task_id, account_id) ==
    account_id \in DOMAIN account_locks' /\ account_locks'[account_id] = task_id

\* This step is the first part of task_id's background execution.
BeginStep(task_id) ==
    /\ task_id \in DOMAIN background
    /\ PcOf(task_id) = "scheduled"
    /\ background'[task_id].pc # "scheduled"

\* The lock of task_id's account names another task.
LockedByOther(task_id) ==
    /\ AccountOf(task_id) \in DOMAIN account_locks
    /\ account_locks[AccountOf(task_id)] # task_id

OwnerIsLive(task_id) ==
    /\ account_locks[AccountOf(task_id)] \in Submitted
    /\ StatusOf(account_locks[AccountOf(task_id)]) \in {"pending", "in_progress"}

\* -------------------------------------------------------------------- C1
\* C1: in every reachable state, two different tasks submitted for the same
\* account are never both in_progress.
C1_AtMostOneInProgress ==
    \A t1 \in Submitted : \A t2 \in Submitted :
        (t1 # t2 /\ AccountOf(t1) = AccountOf(t2))
            => ~(StatusOf(t1) = "in_progress" /\ StatusOf(t2) = "in_progress")

\* A task is in_progress while another task for the same account, cancelled
\* during its run, is still executing.
C1_Witness ==
    \E t1 \in Submitted : \E t2 \in Submitted :
        /\ t1 # t2
        /\ AccountOf(t1) = AccountOf(t2)
        /\ StatusOf(t1) = "in_progress"
        /\ StatusOf(t2) = "cancelled"
        /\ Running(t2)

\* -------------------------------------------------------------------- C2
\* C2: in every reachable state, at most one engine invocation
\* (post_to_naver_blog in flight) exists per account.
C2_AtMostOneEnginePerAccount ==
    \A t1 \in Submitted : \A t2 \in Submitted :
        (t1 # t2 /\ AccountOf(t1) = AccountOf(t2))
            => ~(EngineInFlight(t1) /\ EngineInFlight(t2))

\* -------------------------------------------------------------------- C3
\* C3: once the background execution of a task has finished, no entry of
\* account_locks names that task.
C3_NoLockAfterExecution ==
    \A task_id \in Submitted :
        PcOf(task_id) = "done"
            => \A account_id \in DOMAIN account_locks :
                   account_locks[account_id] # task_id

\* An execution that held the lock has ended on the exception path, and the
\* step just taken is the end of an execution that had acquired the lock.
C3_Witness ==
    /\ \E task_id \in Submitted :
           /\ PcOf(task_id) = "done"
           /\ StatusOf(task_id) = "failed"
           /\ task_storage[task_id].error = SeleniumError
    /\ \E task_id \in Submitted :
           /\ PcOf(task_id) = "done"
           /\ last.op = "execute_finish"
           /\ last.task_id = task_id
           /\ task_storage[task_id].account_id # None

\* -------------------------------------------------------------------- C4
\* C4: under FairSpec every submitted task eventually has a terminal status,
\* no task stays in_progress forever, and every lock entry is eventually
\* removed (or handed to another task).
C4_EventuallyFinished ==
    /\ \A task_id \in TaskIds :
          (task_id \in Submitted)
              ~> (/\ task_id \in Submitted
                  /\ StatusOf(task_id) \in {"completed", "failed", "cancelled"})
    /\ \A task_id \in TaskIds :
          (task_id \in Submitted /\ StatusOf(task_id) = "in_progress")
              ~> (task_id \in Submitted /\ StatusOf(task_id) # "in_progress")
    /\ \A task_id \in TaskIds : \A account_id \in AccountIds :
          Holds(task_id, account_id) ~> ~Holds(task_id, account_id)

\* Every submitted task has run to the end, one of them through the engine
\* to completed, and the lock table is empty again.
C4_Witness ==
    /\ Submitted # {}
    /\ \A task_id \in Submitted : PcOf(task_id) = "done"
    /\ \E task_id \in Submitted : StatusOf(task_id) = "completed"
    /\ DOMAIN account_locks = {}

\* -------------------------------------------------------------------- C5
\* C5: when a task begins execution while the lock of its account names
\* another task that is not pending or in_progress (or is unknown), the task
\* becomes the owner of the lock and is in_progress with its engine call
\* started, instead of failing as busy.
C5_StaleLockReclaimed ==
    [][\A task_id \in TaskIds :
          (BeginStep(task_id) /\ LockedByOther(task_id) /\ ~OwnerIsLive(task_id))
              => /\ HoldsNext(task_id, AccountOf(task_id))
                 /\ task_storage'[task_id].status = "in_progress"
                 /\ background'[task_id].pc = "thread"]_vars

\* A task has just taken over an entry whose owner was cancelled, and that
\* former owner is still known to the registry.
C5_Witness ==
    /\ last.op = "execute_begin"
    /\ last.note = "stale_lock_removed"
    /\ Holds(last.task_id, AccountOf(last.task_id))
    /\ StatusOf(last.task_id) = "in_progress"
    /\ \E other \in Submitted :
           /\ other # last.task_id
           /\ AccountOf(other) = AccountOf(last.task_id)
           /\ StatusOf(other) = "cancelled"

C7_CancelledPendingStaysCancelled ==
    [][\A task_id \in Submitted :
          (StatusOf(task_id) = "cancelled" /\ PcOf(task_id) = "scheduled")
              => task_storage'[task_id].status \notin {"in_progress", "completed"}]_vars

\* -------------------------------------------------------------------- C8
\* C8: once a task has a terminal status, no step changes its record.
C8_TerminalRecordFrozen ==
    [][\A task_id \in Submitted :
          StatusOf(task_id) \in {"completed", "failed", "cancelled"}
              => task_storage'[task_id] = task_storage[task_id]]_vars

\* -------------------------------------------------------------------- C9
\* C9: right after cancel_task has cancelled a pending or in_progress task,
\* the task is cancelled and no entry of account_locks names it.
C9_CancelReleasesLock ==
    (last.op = "cancel_task" /\ last.note \in {"pending", "in_progress"})
        => /\ StatusOf(last.task_id) = "cancelled"
           /\ \A account_id \in DOMAIN account_locks :
                  account_locks[account_id] # last.task_id

\* ------------------------------------------------------------------- C10
\* The edges of the job state machine.
StatusEdges ==
    { <<"pending", "in_progress">>, <<"in_progress", "completed">>,
      <<"in_progress", "failed">>, <<"pending", "failed">>,
      <<"pending", "cancelled">>, <<"in_progress", "cancelled">> }

\* C10: every change of a task's status is an edge of the state machine,
\* and a new task starts pending.
C10_StatusFollowsEdges ==
    [][/\ \A task_id \in Submitted :
             task_storage'[task_id].status # StatusOf(task_id)
                 => <<StatusOf(task_id), task_storage'[task_id].status>>
                        \in StatusEdges
       /\ \A task_id \in (DOMAIN task_storage') \ Submitted :
             task_storage'[task_id].status = "pending"]_vars

\* ------------------------------------------------------------------- C11
\* C11: under FairSpec, when Puppeteer has failed and Selenium has returned
\* its result for a task that holds the lock of its account and is
\* in_progress, the task is eventually completed with progress 100 and a
\* result produced by Selenium.
C11_FallbackSuccessCompletes ==
    \A task_id \in TaskIds :
        (/\ task_id \in Submitted
         /\ PUPPETEER_AVAILABLE
         /\ PcOf(task_id) = "returned"
         /\ background[task_id].outcome = "Selenium"
         /\ Holds(task_id, AccountOf(task_id))
         /\ StatusOf(task_id) = "in_progress")
            ~> (/\ task_id \in Submitted
                /\ StatusOf(task_id) = "completed"
                /\ task_storage[task_id].progress = 100
                /\ task_storage[task_id].result = "Selenium")

\* Puppeteer was tried (it is available) and the task is completed with the
\* Selenium result, having released its lock.
C11_Witness ==
    \E task_id \in Submitted :
        /\ PUPPETEER_AVAILABLE
        /\ last.op = "execute_finish"
        /\ last.task_id = task_id
        /\ StatusOf(task_id) = "completed"
        /\ task_storage[task_id].progress = 100
        /\ task_storage[task_id].result = "Selenium"
        /\ ~Holds(task_id, AccountOf(task_id))

\* ------------------------------------------------------------------- C12
\* C12: a task that has failed after both engines failed (Puppeteer is
\* available, so it was tried first, and the error is not the busy error)
\* carries an error that contains the Puppeteer failure and the Selenium
\* failure.
C12_CompositeError ==
    \A task_id \in Submitted :
        (/\ PUPPETEER_AVAILABLE
         /\ PcOf(task_id) = "done"
         /\ StatusOf(task_id) = "failed"
         /\ task_storage[task_id].error # AccountBusyError)
            => {PuppeteerError, SeleniumError}
                   \subseteq FailureTexts(task_storage[task_id].error)

\* ------------------------------------------------------------------- C13
\* C13: the position of a task's execution only moves forward, and the
\* engine steps follow the selection order: from the start of the engine
\* call the step taken is Puppeteer's exactly when PUPPETEER_AVAILABLE, a
\* Puppeteer success ends the call with the Puppeteer result, the Selenium
\* step is taken only after a Puppeteer failure or when Puppeteer is not
\* available, and after either engine's step of its own it is not taken
\* again.
C13_EngineSelectionOrder ==
    [][\A task_id \in DOMAIN background :
          LET pc == PcOf(task_id)
              pcn == background'[task_id].pc
              outn == background'[task_id].outcome
              mine == last'.task_id = task_id
          IN  /\ (pc = "scheduled" /\ pcn # pc)
                    => /\ pcn \in {"thread", "done"}
                       /\ last'.op = "execute_begin" /\ mine
                       /\ outn = None
              /\ (pc = "thread" /\ pcn # pc)
                    => IF PUPPETEER_AVAILABLE
                       THEN /\ last'.op = "puppeteer" /\ mine
                            /\ \/ pcn = "returned" /\ outn = "Puppeteer"
                               \/ pcn = "fallback" /\ outn = None
                       ELSE /\ last'.op = "selenium" /\ mine
                            /\ pcn = "returned"
                            /\ outn \in {"Selenium", SeleniumError}
              /\ (pc = "fallback" /\ pcn # pc)
                    => /\ PUPPETEER_AVAILABLE
                       /\ last'.op = "selenium" /\ mine
                       /\ pcn = "returned"
                       /\ outn \in {"Selenium", SeleniumError}
              /\ (pc = "returned" /\ pcn # pc)
                    => /\ pcn = "done"
                       /\ last'.op = "execute_finish" /\ mine
                       /\ outn = background[task_id].outcome
              /\ pc = "done" => pcn = "done"
              /\ (pcn = pc) => outn = background[task_id].outcome
              /\ PUPPETEER_AVAILABLE' = PUPPETEER_AVAILABLE]_vars

\* Puppeteer is available, it has failed for this task, and the Selenium
\* step has just been taken.
C13_Witness ==
    /\ PUPPETEER_AVAILABLE
    /\ last.op = "selenium"
    /\ last.task_id \in Submitted
    /\ PcOf(last.task_id) = "returned"
    /\ background[last.task_id].outcome \in {"Selenium", SeleniumError}

\* ------------------------------------------------------------------- C14
\* C14: the lock test, the removal of a stale entry, the installation of the
\* new owner and the move to in_progress are one step: a task proceeds to
\* in_progress only from a state in which no other live task owns the lock
\* of its account, in the resulting state it is the owner, and no other
\* task for that account is in_progress or has been touched.
C14_AtomicAcquisition ==
    [][\A task_id \in TaskIds :
          (BeginStep(task_id) /\ background'[task_id].pc = "thread")
              => /\ ~(LockedByOther(task_id) /\ OwnerIsLive(task_id))
                 /\ HoldsNext(task_id, AccountOf(task_id))
                 /\ task_storage'[task_id].status = "in_progress"
                 /\ \A other \in Submitted \ {task_id} :
                        AccountOf(other) = AccountOf(task_id)
                            => /\ task_storage'[other].status # "in_progress"
                               /\ task_storage'[other] = task_storage[other]
                               /\ ~HoldsNext(other, AccountOf(other))]_vars

\* A task has just acquired the lock of an account for which another task
\* had already started its execution.
C14_Witness ==
    /\ last.op = "execute_begin"
    /\ last.note \in {"lock_free", "stale_lock_removed"}
    /\ Holds(last.task_id, AccountOf(last.task_id))
    /\ \E other \in Submitted :
           /\ other # last.task_id
           /\ AccountOf(other) = AccountOf(last.task_id)
           /\ PcOf(other) # "scheduled"

\* ------------------------------------------------------------------- C15
\* The execution of task_id ends with this step (busy path or after the
\* engine call).
FinishStep(task_id) ==
    PcOf(task_id) # "done" /\ background'[task_id].pc = "done"

\* This step is cancel_task on the known task task_id.
CancelStep(task_id) ==
    /\ last' # last
    /\ last'.op = "cancel_task"
    /\ last'.task_id = task_id

\* C15: when the execution of a task ends, or the task is cancelled, while
\* the lock of its account is absent or names another task, account_locks
\* is unchanged; and a release never does more than delete the entry the
\* task itself holds.
C15_ReleaseOnlyOwnLock ==
    [][\A task_id \in Submitted :
          (FinishStep(task_id) \/ CancelStep(task_id))
              => /\ ~Holds(task_id, AccountOf(task_id))
                        => account_locks' = account_locks
                 /\ Holds(task_id, AccountOf(task_id))
                        => account_locks' \in
                               {account_locks,
                                Del(account_locks, AccountOf(task_id))}]_vars

\* The execution of a task cancelled during its run has just ended while
\* another task holds the lock of the same account, and still holds it.
C15_Witness ==
    /\ last.op = "execute_finish"
    /\ last.task_id \in Submitted
    /\ \E other \in Submitted :
           /\ other # last.task_id
           /\ AccountOf(other) = AccountOf(last.task_id)
           /\ Holds(other, AccountOf(other))
           /\ StatusOf(other) = "in_progress"

\* ------------------------------------------------------------------- C16
\* The entry of account_id in account_locks is the same before and after.
LockEntryUnchanged(account_id) ==
    /\ (account_id \in DOMAIN account_locks')
           <=> (account_id \in DOMAIN account_locks)
    /\ account_id \in DOMAIN account_locks
           => account_locks'[account_id] = account_locks[account_id]

\* C16: a step of a task (begin, engine, finish, cancel, submission) leaves
\* the lock entry of every account other than the task's own unchanged, and
\* a task is refused as busy only when the lock of its own account is held
\* by a live task submitted for that same account.
C16_AccountsIndependent ==
    [][/\ \A account_id \in AccountIds :
             (\/ last'.task_id \notin DOMAIN background'
              \/ account_id # background'[last'.task_id].naver_id)
                 => LockEntryUnchanged(account_id)
       /\ \A task_id \in TaskIds :
             (BeginStep(task_id) /\ background'[task_id].pc = "done")
                 => /\ LockedByOther(task_id)
                    /\ OwnerIsLive(task_id)
                    /\ AccountOf(account_locks[AccountOf(task_id)])
                           = AccountOf(task_id)]_vars

\* Two tasks for different accounts are in_progress at once, each holding
\* the lock of its own account.
C16_Witness ==
    \E t1 \in Submitted : \E t2 \in Submitted :
        /\ AccountOf(t1) # AccountOf(t2)
        /\ StatusOf(t1) = "in_progress"
        /\ StatusOf(t2) = "in_progress"
        /\ Holds(t1, AccountOf(t1))
        /\ Holds(t2, AccountOf(t2))

\* ------------------------------------------------------------------- C17
\* C17: a status query or a cancel request answers 404 exactly when its id
\* is not a key of task_storage, and such a request leaves task_storage,
\* account_locks and the scheduled executions unchanged.
C17_UnknownIdNotFound ==
    [][(last' # last /\ last'.op \in {"get_task_status", "cancel_task"})
          => IF last'.task_id \notin Submitted
             THEN /\ last'.note = "404"
                  /\ task_storage' = task_storage
                  /\ account_locks' = account_locks
                  /\ background' = background
             ELSE last'.note # "404"]_vars

\* A status query for an id no submission has returned has just been
\* answered 404 while a task exists and holds a lock.
C17_Witness ==
    /\ last.op = "get_task_status"
    /\ last.task_id \notin Submitted
    /\ last.note = "404"
    /\ Submitted # {}
    /\ DOMAIN account_locks # {}

\* ------------------------------------------------------------------- C18
\* C18: a submission is possible in every state (whatever the locks), and
\* the step adds exactly one record under an id that was not a key before,
\* pending with progress 0 and no result, error or account_id, schedules
\* exactly one execution for it, and changes no other record, no other
\* scheduled execution and no lock entry.
C18_SubmissionOnlyCreates ==
    /\ [](Cardinality(Submitted) < MaxJobs
             => \A account_id \in AccountIds :
                    ENABLED create_blog_post(account_id))
    /\ [][(last' # last /\ last'.op = "create_blog_post")
             => LET task_id == last'.task_id
                IN  /\ task_id \notin Submitted
                    /\ DOMAIN task_storage' = Submitted \cup {task_id}
                    /\ task_storage'[task_id].status = "pending"
                    /\ task_storage'[task_id].progress = 0
                    /\ task_storage'[task_id].result = None
                    /\ task_storage'[task_id].error = None
                    /\ task_storage'[task_id].account_id = None
                    /\ \A other \in Submitted :
                           /\ task_storage'[other] = task_storage[other]
                           /\ background'[other] = background[other]
                    /\ DOMAIN background' = (DOMAIN background) \cup {task_id}
                    /\ background'[task_id].pc = "scheduled"
                    /\ account_locks' = account_locks]_vars

\* A task has just been submitted, and accepted as pending, for an account
\* whose lock is held by a task in_progress.
C18_Witness ==
    /\ last.op = "create_blog_post"
    /\ StatusOf(last.task_id) = "pending"
    /\ PcOf(last.task_id) = "scheduled"
    /\ \E owner \in Submitted :
           /\ owner # last.task_id
           /\ Holds(owner, AccountOf(last.task_id))
           /\ StatusOf(owner) = "in_progress"

\* ------------------------------------------------------------------- C19
\* C19: every task's progress is within 0..100, is 100 whenever the status
\* is completed and 0 whenever it is failed, and does not decrease in a step
\* that leaves the task in_progress or makes it in_progress.
C19_ProgressDiscipline ==
    /\ [](\A task_id \in Submitted :
             /\ task_storage[task_id].progress \in 0..100
             /\ StatusOf(task_id) = "completed"
                    => task_storage[task_id].progress = 100
             /\ StatusOf(task_id) = "failed"
                    => task_storage[task_id].progress = 0)
    /\ [][\A task_id \in Submitted :
             task_storage'[task_id].status = "in_progress"
                 => task_storage'[task_id].progress
                        >= task_storage[task_id].progress]_vars

\* One task has failed in the engine after having been in_progress and is
\* back at 0, another is completed at 100.
C19_Witness ==
    /\ \E task_id \in Submitted :
           /\ StatusOf(task_id) = "failed"
           /\ task_storage[task_id].error = SeleniumError
           /\ task_storage[task_id].account_id # None
           /\ task_storage[task_id].progress = 0
    /\ \E task_id \in Submitted :
           /\ StatusOf(task_id) = "completed"
           /\ task_storage[task_id].progress = 100

\* ------------------------------------------------------------------- C20
\* C20: in every reachable state a task carries a result only while its
\* status is completed and an error only while its status is failed.
C20_ResultAndErrorMatchStatus ==
    \A task_id \in Submitted :
        /\ task_storage[task_id].result # None
               => StatusOf(task_id) = "completed"
        /\ task_storage[task_id].error # None
               => StatusOf(task_id) = "failed"

\* ------------------------------------------------------------------- C21
\* This step is one of the request handlers submit, status query, cancel.
HandlerStep ==
    /\ last' # last
    /\ last'.op \in {"create_blog_post", "get_task_status", "cancel_task"}

\* C21: in every reachable state, whatever engine calls are in flight, a
\* submission (while ids remain), a status query and a cancel can be taken;
\* each answers in its own step, without advancing or waiting for any
\* background execution and, for the submission and the query, without
\* touching a lock; the submission answers with the new task's id and the
\* status pending while the task is pending and its execution not started.
C21_ApiResponsive ==
    /\ [](/\ Cardinality(Submitted) < MaxJobs
                => \A account_id \in AccountIds :
                       ENABLED create_blog_post(account_id)
          /\ \A task_id \in TaskIds :
                /\ ENABLED get_task_status(task_id)
                /\ ENABLED cancel_task(task_id))
    /\ [][HandlerStep
             => /\ response'.code \in {"200", "404"}
                /\ \A task_id \in DOMAIN background :
                       background'[task_id] = background[task_id]
                /\ last'.op # "cancel_task" => account_locks' = account_locks
                /\ last'.op = "create_blog_post"
                       => /\ response'.code = "200"
                          /\ response'.body.task_id = last'.task_id
                          /\ response'.body.status = "pending"
                          /\ task_storage'[last'.task_id].status = "pending"
                          /\ background'[last'.task_id].pc = "scheduled"]_vars

\* A cancel has just been answered while the engine call of the cancelled
\* task and the engine call of another task are both in flight.
C21_Witness ==
    /\ last.op = "cancel_task"
    /\ response.code = "200"
    /\ last.task_id \in Submitted
    /\ EngineInFlight(last.task_id)
    /\ \E other \in Submitted :
           other # last.task_id /\ EngineInFlight(other)

\* ------------------------------------------------------------------- C22
\* C22: no step removes a key of task_storage, changes a task's created_at,
\* or changes an account_id that is set.
C22_RecordsKeptIdentityFixed ==
    [][/\ Submitted \subseteq DOMAIN task_storage'
       /\ \A task_id \in Submitted :
             /\ task_storage'[task_id].created_at
                    = task_storage[task_id].created_at
             /\ task_storage[task_id].account_id # None
                    => task_storage'[task_id].account_id
                           = task_storage[task_id].account_id]_vars

\* Every id is taken, a task that has run and failed in the engine has just
\* been cancelled, and its record still carries its account and its
\* creation time.
C22_Witness ==
    /\ Cardinality(Submitted) = MaxJobs
    /\ last.op = "cancel_task"
    /\ last.note = "failed"
    /\ task_storage[last.task_id].error = SeleniumError
    /\ task_storage[last.task_id].account_id = AccountOf(last.task_id)
    /\ task_storage[last.task_id].created_at = last.task_id

\* ------------------------------------------------------------------- C23
\* C23: in every reachable state, every entry account_locks[a] = J names a
\* task J of task_storage whose recorded account_id is a and whose status is
\* in_progress.
C23_NoStaleLockObservable ==
    \A account_id \in DOMAIN account_locks :
        LET owner == account_locks[account_id]
        IN  /\ owner \in Submitted
            /\ task_storage[owner].account_id = account_id
            /\ StatusOf(owner) = "in_progress"

\* ------------------------------------------------------------------- C24
\* C24: in every reachable state, a task whose status is in_progress has its
\* account_id recorded and is the owner of that account's lock.
C24_InProgressOwnsLock ==
    \A task_id \in Submitted :
        StatusOf(task_id) = "in_progress"
            => /\ task_storage[task_id].account_id = AccountOf(task_id)
               /\ Holds(task_id, task_storage[task_id].account_id)

\* A task is in_progress and owns the lock it has just taken over from a
\* task of the same account that was cancelled and is still executing.
C24_Witness ==
    /\ last.op = "execute_begin"
    /\ last.note = "stale_lock_removed"
    /\ StatusOf(last.task_id) = "in_progress"
    /\ Holds(last.task_id, task_storage[last.task_id].account_id)
    /\ \E other \in Submitted :
           /\ other # last.task_id
           /\ AccountOf(other) = AccountOf(last.task_id)
           /\ Running(other)

\* ------------------------------------------------------------------- C25
\* This step is a status query or a lock introspection.
QueryStep ==
    /\ last' # last
    /\ last'.op \in {"get_task_status", "get_account_status"}

\* C25: a status query or a lock introspection changes neither task_storage
\* nor account_locks nor any scheduled execution; the query of a known task
\* answers its id with the status, progress, result and error stored at that
\* moment; the introspection answers the accounts that are locked at that
\* moment and, for each, one entry with the owner and the owner's stored
\* status.
C25_QueriesReadOnlySnapshot ==
    [][QueryStep
          => /\ task_storage' = task_storage
             /\ account_locks' = account_locks
             /\ background' = background
             /\ (last'.op = "get_task_status" /\ last'.task_id \in Submitted)
                    => /\ response'.code = "200"
                       /\ response'.body.task_id = last'.task_id
                       /\ response'.body.status = StatusOf(last'.task_id)
                       /\ response'.body.progress
                              = task_storage[last'.task_id].progress
                       /\ response'.body.result
                              = task_storage[last'.task_id].result
                       /\ response'.body.error
                              = task_storage[last'.task_id].error
             /\ last'.op = "get_account_status"
                    => /\ response'.code = "200"
                       /\ response'.body.locked_accounts = DOMAIN account_locks
                       /\ Cardinality(response'.body.locks)
                              = Cardinality(DOMAIN account_locks)
                       /\ \A account_id \in DOMAIN account_locks :
                              \E entry \in response'.body.locks :
                                  /\ entry.account_id = account_id
                                  /\ entry.task_id = account_locks[account_id]
                                  /\ entry.task_id \in Submitted
                                  /\ entry.task_status
                                         = StatusOf(entry.task_id)]_vars

\* A status query has just reported a task as failed with the engine's
\* error and progress 0, while another task holds a lock.
C25_Witness ==
    /\ last.op = "get_task_status"
    /\ response.code = "200"
    /\ response.body.status = "failed"
    /\ response.body.error = SeleniumError
    /\ response.body.progress = 0
    /\ DOMAIN account_locks # {}

\* ------------------------------------------------------------------- C26
\* C26: a cancel of a known task changes, in that task's record, the status
\* only; it changes no other record, adds and removes no record, leaves
\* every lock entry the task does not own as it was, and leaves every
\* scheduled or running execution, the task's own included, where it was.
C26_CancelFrame ==
    [][\A task_id \in Submitted :
          CancelStep(task_id)
              => /\ task_storage'[task_id]
                        = [task_storage[task_id] EXCEPT !.status = "cancelled"]
                 /\ DOMAIN task_storage' = Submitted
                 /\ \A other \in Submitted \ {task_id} :
                        task_storage'[other] = task_storage[other]
                 /\ \A account_id \in AccountIds :
                        ~Holds(task_id, account_id)
                            => LockEntryUnchanged(account_id)
                 /\ background' = background]_vars

\* A task cancelled while its engine call was in flight has afterwards been
\* written to by its own execution: its status is completed, while a second
\* task of the same account, admitted after the cancel, is executing.
C26_Witness ==
    /\ last.op = "execute_finish"
    /\ last.note = "completed"
    /\ StatusOf(last.task_id) = "completed"
    /\ Truthy(AccountOf(last.task_id))
    /\ \E other \in Submitted :
           /\ other # last.task_id
           /\ AccountOf(other) = AccountOf(last.task_id)
           /\ Running(other)

\* ------------------------------------------------------------------- C27
\* C27: when post_to_naver_blog has left its Selenium path, by a return or
\* by any exception, a browser that was started has had quit attempted, the
\* instance's user_data_dir is None, and what the caller gets is the result
\* of the posting or the exception the posting raised, whatever happened to
\* quit and to the removal of the profile directory.
C27_ResourcesReleasedOnExit ==
    poster.pc = "done"
        => /\ poster.browser = "running" => poster.quit_attempted
           /\ poster.user_data_dir = None
           /\ poster.outcome =
                  IF poster.raised # None THEN poster.raised ELSE poster.result

\* ------------------------------------------------------------------- C28
\* This step is a pass of the for loop of _cleanup_profile.
AttemptStep ==
    /\ poster.pc = "cleanup_attempt"
    /\ poster'.attempt = poster.attempt + 1

\* This step is the return of _cleanup_profile.
CleanupReturnStep ==
    /\ poster.pc \in {"cleanup", "cleanup_attempt"}
    /\ poster'.pc \notin {"cleanup", "cleanup_attempt"}

\* What C28 says apart from the final value of user_data_dir: at most 3
\* passes are made; a pass after which the directory is gone is the last
\* one, and the loop goes on only while passes remain; the call returns
\* without an exception of its own (the caller's pending exception and its
\* result are what they were, or the caller goes on to its own raise); and,
\* the thread running, the call always returns.
CleanupBoundedNoEscalation ==
    /\ [](poster.pc # "idle" => poster.attempt <= MaxCleanupAttempts)
    /\ [][AttemptStep
             => /\ ~poster'.dir_exists => CleanupReturnStep
                /\ ~CleanupReturnStep
                       => poster'.attempt < MaxCleanupAttempts]_vars
    /\ [][CleanupReturnStep
             => /\ poster'.result = poster.result
                /\ poster'.raised =
                       IF poster.ret = "raise_init" THEN InitError
                                                    ELSE poster.raised
                /\ poster'.pc = IF poster.ret = "raise_init" THEN "finally"
                                                             ELSE "done"]_vars
    /\ (poster.pc \in {"cleanup", "cleanup_attempt"})
           ~> (poster.pc \notin {"cleanup", "cleanup_attempt"})

\* C28 as stated: _cleanup_profile makes at most 3 attempts, stops at the
\* first one after which the directory is gone, always returns, never
\* raises, and always ends with user_data_dir = None.
C28_CleanupAlwaysClearsReference ==
    /\ CleanupBoundedNoEscalation
    /\ [][CleanupReturnStep => poster'.user_data_dir = None]_vars

\* C28 as amended: the same, except that user_data_dir is None at the end
\* only if it was None already or the directory existed at the call; a call
\* with user_data_dir set and the directory already gone returns at once
\* and leaves user_data_dir as it was.
C28_CleanupBounded ==
    /\ CleanupBoundedNoEscalation
    /\ [][CleanupReturnStep
             => IF poster.pc = "cleanup" /\ poster.user_data_dir # None
                THEN /\ ~poster.dir_exists
                     /\ poster'.user_data_dir = poster.user_data_dir
                     /\ poster'.attempt = poster.attempt
                ELSE poster'.user_data_dir = None]_vars

\* The posting has succeeded, every one of the 3 passes has left the
\* directory in place, and the call has returned: user_data_dir is None and
\* the caller has its result.
C28_Witness ==
    /\ poster.pc = "done"
    /\ poster.step = "cleanup_finished"
    /\ poster.attempt = MaxCleanupAttempts
    /\ poster.dir_exists
    /\ poster.user_data_dir = None
    /\ poster.outcome = "Selenium"

\* ------------------------------------------------------------------- C29
\* This step is a step of _wait_for_manual_login (not one of the world
\* around the thread, which moves the profile directory only).
LoginStep ==
    /\ poster.pc \in {"login_open", "login_poll"}
    /\ poster' # poster
    /\ poster'.dir_exists = poster.dir_exists

\* This step ends _wait_for_manual_login.
LoginExitStep ==
    LoginStep /\ poster'.pc \notin {"login_open", "login_poll"}

\* A page of Naver that is neither on the login host nor a login page.
PostLoginUrl(url) ==
    url \in Urls /\ url.naver /\ ~url.nid /\ ~url.nidlogin

\* What C29 says apart from the kind of failure: a pass of the loop is made
\* only within the bound; every pass that does not end the wait moves the
\* clock on by the sleep at least; the wait returns normally only with a
\* post-login URL just read; and, the thread running, the wait always ends
\* and a wait that has failed always ends with post_to_naver_blog raising
\* that failure to the execution, which marks the task failed.
LoginWaitBounded ==
    /\ [](poster.pc = "login_poll"
             => poster.elapsed < MaxWaitTime + PollInterval + MaxLag + 1)
    /\ [][(LoginStep /\ poster.pc = "login_poll")
             => /\ poster'.step \in {"login_poll", "login_return",
                                     "login_raises"}
                       => poster.elapsed < MaxWaitTime
                /\ ~LoginExitStep
                       => poster'.elapsed >= poster.elapsed + PollInterval
                /\ poster'.pc = "navigate"
                       => /\ poster'.raised = None
                          /\ PostLoginUrl(poster'.url)]_vars
    /\ (poster.pc \in {"login_open", "login_poll"})
           ~> (poster.pc \notin {"login_open", "login_poll"})
    /\ \A error \in {LoginTimeoutError, LoginDriverError} :
           (poster.pc = "finally" /\ poster.raised = error)
               ~> (poster.pc = "done" /\ poster.outcome = error)

\* C29 as stated: the wait always ends, normally only after a poll has read
\* a post-login URL, and otherwise with the timeout error, raised once the
\* bound of 300 seconds is exceeded; it never polls forever and the task
\* ends failed.
C29_LoginWaitEndsByLoginOrTimeout ==
    /\ LoginWaitBounded
    /\ [][(LoginExitStep /\ poster'.pc # "navigate")
             => /\ poster'.raised = LoginTimeoutError
                /\ poster.elapsed >= MaxWaitTime]_vars

\* C29 as amended: the same, except that the wait may also fail before the
\* bound, with the error of the driver call that opens or reads the page;
\* the timeout error is raised exactly when the loop condition finds the
\* bound reached.
C29_LoginWaitBoundedOrDriverError ==
    /\ LoginWaitBounded
    /\ [][(LoginExitStep /\ poster'.pc # "navigate")
             => /\ poster'.pc = "finally"
                /\ poster'.raised \in {LoginTimeoutError, LoginDriverError}
                /\ poster'.raised = LoginTimeoutError
                       <=> (/\ poster.pc = "login_poll"
                            /\ poster.elapsed >= MaxWaitTime)]_vars

\* The wait has timed out and post_to_naver_blog has ended with the timeout
\* error, after quitting the browser.
C29_Witness ==
    /\ poster.pc = "done"
    /\ poster.outcome = LoginTimeoutError
    /\ poster.quit_attempted
    /\ poster.result = None

\* ------------------------------------------------------------------- C30
\* C30: for every task of the queue-backed variant, the progress values
\* reported so far (the task's own first update, then the reports of
\* post_blog) are in non-decreasing order.
C30_ReportedProgressNonDecreasing ==
    \A task_id \in DOMAIN celery :
        LET reported == celery[task_id].reported
        IN  \A i \in DOMAIN reported : \A j \in DOMAIN reported :
                i < j => reported[i] <= reported[j]

=============================================================================
